---- MODULE Spec2Model ----
(***************************************************************************)
(* Trend analysis and business health scoring of the F&B dashboard         *)
(* (src/main.py): analyze_trend_v3 and generate_executive_summary, run on  *)
(* the monthly aggregation of the filtered sales data (specification Spec),*)
(* and the run of the dashboard on the filtered data (DashSpec), in which  *)
(* `ratios` records every division the run evaluates, with its denominator,*)
(* and `displayed` the sections the run renders; and the browser session   *)
(* over its script runs (SessionSpec): login, upload, column mapping, the   *)
(* Apply button and st.session_state.                                      *)
(*                                                                         *)
(* Numbers.  Sales are integers in a fixed unit (one unit = 50 currency    *)
(* units, so 2 and 3 stand for 100 and 150; the frame of ScenarioSales is  *)
(* in units of 50000).  AOV = sales / transactions is kept as the integer  *)
(* AOV * AOVScale, AOVScale being a common multiple of every transaction   *)
(* count.  Everything the functions derive from the values (regression     *)
(* significance, sign of the slope, rolling-mean comparison, extrema,      *)
(* constancy, the YoY ratio) is invariant under a positive scaling of the  *)
(* values.  Rationals are pairs <<num, den>> with den > 0.  Python's None  *)
(* is the empty tuple.                                                     *)
(*                                                                         *)
(* Text.  A narrative is the sequence of its tokens; Python's substring    *)
(* test `phrase in narrative` is the search for the phrase's tokens as a   *)
(* contiguous run of the narrative's tokens.                               *)
(***************************************************************************)
EXTENDS Integers, Sequences, FiniteSets, TLC

VARIABLES monthly_agg, pc, metric_col, trend_result, summary,
          df_filtered, ratios, displayed,
          session_state, auth_status, apply_button

vars == <<monthly_agg, pc, metric_col, trend_result, summary,
          df_filtered, ratios, displayed,
          session_state, auth_status, apply_button>>

\* the state of a browser session: st.session_state, the outcome of the
\* login, and the value the Apply button has in the pending run
sessionVars == <<session_state, auth_status, apply_button>>

\* the state of the analyses
analysisVars == <<monthly_agg, metric_col, trend_result, summary, df_filtered, ratios>>

(***************************************************************************)
(* Bounds of the model                                                     *)
(***************************************************************************)
\* longest frame of the exhaustively enumerated short frames
MaxMonths == 4
\* the long frames have YoYWindow - 1 .. YoYWindow + MaxExtra rows
MaxExtra == 1
\* monthly sales totals, in units of 50 (a refund month, an empty month, 100, 150)
SalesVals == {-1, 0, 2, 3}
\* the sales totals of the exhaustively enumerated short frames
ShortSalesVals == {0, 1, 2, 3}
\* monthly numbers of distinct bills
TrxVals == {1, 2}
\* the row after which the frames of TailFrame change their profile
TailStep == 6
\* longest frame of the linear frames
MaxLinear == 6
\* first values and monthly increments of the linear frames
LinearStarts == {0, 2, 12}
LinearSteps == {-2, -1, 1, 2}
\* four months of sales with a jump of 50% in the last month
\* (1000000, 1050000, 1100000, 1650000), in units of 50000
ScenarioSales == <<20, 21, 22, 33>>
\* first calendar month of every frame: January 2023, as year * 12 + (month - 1)
StartBulan == 2023 * 12

None == <<>>

Metrics == <<"TotalMonthlySales", "TotalTransactions", "AOV">>

MetricCols == {Metrics[i] : i \in 1..Len(Metrics)}

\* the keys of `analyses`, which are also the labels passed to analyze_trend_v3
MetricLabel(col) ==
    CASE col = "TotalMonthlySales" -> "Penjualan"
      [] col = "TotalTransactions" -> "Transaksi"
      [] col = "AOV" -> "AOV"

(***************************************************************************)
(* Arithmetic helpers                                                      *)
(***************************************************************************)
Abs(x) == IF x < 0 THEN -x ELSE x

\* Op applied to the value of x (x is evaluated once, before Op uses it)
Eval(x, Op(_)) == CHOOSE r \in {Op(y) : y \in {x}} : TRUE

RECURSIVE SumTo(_, _)
SumTo(s, i) == IF i = 0 THEN 0 ELSE s[i] + SumTo(s, i - 1)

\* the sum of the elements of a sequence
SumSeq(s) == Eval(s, LAMBDA t : SumTo(t, Len(t)))

\* a/b > c/d for a, c >= 0 and b, d > 0, by Euclid's algorithm (no product
\* is formed, so that the comparison stays within machine integers)
RECURSIVE FracGT(_, _, _, _)
FracGT(a, b, c, d) ==
    IF a \div b # c \div d THEN a \div b > c \div d
    ELSE IF a % b = 0 THEN FALSE
    ELSE IF c % d = 0 THEN TRUE
    ELSE FracGT(d, c % d, b, a % b)

\* the least common multiple of a finite set of positive integers
RECURSIVE LcmUpFrom(_, _)
LcmUpFrom(S, k) == IF \A t \in S : k % t = 0 THEN k ELSE LcmUpFrom(S, k + 1)

AOVScale == LcmUpFrom(TrxVals \ {0}, 1)

(***************************************************************************)
(* The monthly aggregation (main script)                                   *)
(***************************************************************************)
\* one row of monthly_agg: the month, sum of Nett Sales, nunique of Bill
\* Number, and AOV = sales / transactions when transactions > 0, else 0.
\* na is the set of columns holding NaN in the row.
MonthlyRow(bulan, sales, trx, na) ==
    [Bulan |-> bulan,
     TotalMonthlySales |-> sales,
     TotalTransactions |-> trx,
     AOV |-> IF trx > 0 THEN (sales * AOVScale) \div trx ELSE 0,
     na |-> na]

(***************************************************************************)
(* pandas / numpy / scipy operations used by analyze_trend_v3              *)
(***************************************************************************)
\* DropNa that drops nothing
DropNaKeepAll(df, col) == df

\* df.dropna(subset=[col])
DropNa(df, col) == SelectSeq(df, LAMBDA row : col \notin row.na)

\* df[col] as a sequence of values
Column(df, col) == [i \in 1..Len(df) |-> df[i][col]]

\* NUnique that counts the values instead of the distinct values
NUniqueRows(df, col) == Len(df)

\* len(set(df[col]))
NUnique(df, col) == Cardinality({df[i][col] : i \in 1..Len(df)})

\* SxyN without the product of the two sums: the means are not taken off
SxyNUncentred(v) ==
    LET n == Len(v)
    IN n * SumSeq([i \in 1..n |-> (i - 1) * v[i]])

\* n * sum(x*y) - sum(x) * sum(y) for x = 0..n-1: n^2 times the covariance
\* np.cov(x, y, bias=1) that linregress computes
SxyN(v) ==
    LET n == Len(v)
    IN n * SumSeq([i \in 1..n |-> (i - 1) * v[i]])
         - SumSeq([i \in 1..n |-> i - 1]) * SumSeq(v)

\* n^2 times the variance of x = 0..n-1
SxxN(n) ==
    n * SumSeq([i \in 1..n |-> (i - 1) * (i - 1)])
      - SumSeq([i \in 1..n |-> i - 1]) * SumSeq([i \in 1..n |-> i - 1])

\* n^2 times the variance of the values
SyyN(v) ==
    LET n == Len(v)
    IN n * SumSeq([i \in 1..n |-> v[i] * v[i]]) - SumSeq(v) * SumSeq(v)

\* 10000 * (two-sided 5% critical value of Student's t)^2, by degrees of
\* freedom: |t| exceeds the critical value exactly when the two-sided
\* p-value of the slope is below 0.05
TCritSq10k ==
    <<1614476, 185128, 101280, 77086, 66079, 59874, 55914, 53177, 51174, 49646,
      48443, 47472, 46672, 46001, 45431, 44940, 44513, 44139, 43807, 43512>>

\* PValueBelowAlpha with the critical value of the normal distribution
\* (1.96^2 = 3.8416) for every number of degrees of freedom
PValueBelowAlphaNormal(v) ==
    LET df == Len(v) - 2
    IN Eval(<<SxyN(v), SxxN(Len(v)), SyyN(v)>>,
            LAMBDA s : /\ s[3] # 0
                       /\ FracGT(s[1] * s[1], s[2] * s[3],
                                 38416, df * 10000 + 38416))

\* p_value < 0.05 for stats.linregress(arange(n), v), n >= 3, v not constant:
\* t = r * sqrt(df / (1 - r^2)) with df = n - 2 and r^2 = Sxy^2 / (Sxx * Syy),
\* so t^2 > c  iff  r^2 > c / (df + c).  For values without variance linregress
\* takes r = 0, which gives p_value = 1.
PValueBelowAlpha(v) ==
    LET df == Len(v) - 2
    IN Eval(<<SxyN(v), SxxN(Len(v)), SyyN(v)>>,
            LAMBDA s : /\ s[3] # 0
                       /\ FracGT(s[1] * s[1], s[2] * s[3],
                                 TCritSq10k[df], df * 10000 + TCritSq10k[df]))

\* slope of the regression, as the rational Sxy / Sxx
Slope(v) == <<SxyN(v), SxxN(Len(v))>>

\* slope * x_val + intercept for x_val = 0..n-1, each value a rational:
\* intercept = mean(y) - slope * mean(x)
TrendLine(v) ==
    LET n == Len(v)
    IN Eval(<<SxyN(v), SxxN(n), SumSeq([i \in 1..n |-> i - 1]), SumSeq(v)>>,
            LAMBDA s : [i \in 1..n |->
                          <<s[1] * (n * (i - 1) - s[3]) + s[2] * s[4], n * s[2]>>])

\* RollingMean3 with a window of 2
RollingMeanTwo(v) ==
    [i \in 1..Len(v) |->
       LET lo == IF i > 1 THEN i - 1 ELSE 1
       IN <<SumSeq(SubSeq(v, lo, i)), i - lo + 1>>]

\* df[col].rolling(window=3, min_periods=1).mean(): each mean is the
\* rational <<sum of the window, number of values in the window>>
RollingMean3(v) ==
    [i \in 1..Len(v) |->
       LET lo == IF i > 2 THEN i - 2 ELSE 1
       IN <<SumSeq(SubSeq(v, lo, i)), i - lo + 1>>]

\* RatGT with the comparison reversed
RatGTReversed(a, b) == a[1] * b[2] < b[1] * a[2]

\* a > b for two rationals with positive denominators
RatGT(a, b) == a[1] * b[2] > b[1] * a[2]

\* position of the first maximum / minimum: idxmax / idxmin
IdxMax(v) ==
    CHOOSE i \in 1..Len(v) :
        /\ \A j \in 1..Len(v) : v[j] <= v[i]
        /\ \A j \in 1..(i - 1) : v[j] < v[i]

IdxMin(v) ==
    CHOOSE i \in 1..Len(v) :
        /\ \A j \in 1..Len(v) : v[j] >= v[i]
        /\ \A j \in 1..(i - 1) : v[j] > v[i]

(***************************************************************************)
(* Formatting                                                              *)
(***************************************************************************)
MonthNames ==
    <<"January", "February", "March", "April", "May", "June", "July",
      "August", "September", "October", "November", "December">>

\* Bulan.strftime('%B %Y')
StrfMonthYear(bulan) == <<MonthNames[(bulan % 12) + 1], ToString(bulan \div 12)>>

\* 1000 * num / den rounded to the nearest integer, ties to even (num >= 0)
RoundTenths(num, den) ==
    LET q == (1000 * num) \div den
        r == (1000 * num) % den
    IN IF 2 * r > den THEN q + 1
       ELSE IF 2 * r < den THEN q
       ELSE IF q % 2 = 0 THEN q ELSE q + 1

\* f"{x:.1%}" for x = num / den >= 0
FormatPercent1(num, den) ==
    LET t == RoundTenths(num, den)
    IN ToString(t \div 10) \o "." \o ToString(t % 10) \o "%"

\* phrase in narrative
Contains(narrative, phrase) ==
    \E text \in {narrative} :
        \E i \in 1..(Len(text) - Len(phrase) + 1) :
            SubSeq(text, i, i + Len(phrase) - 1) = phrase

(***************************************************************************)
(* analyze_trend_v3                                                        *)
(***************************************************************************)
InsufficientNarrative ==
    <<"Data", "tidak", "cukup", "untuk", "analisis", "tren",
      "(dibutuhkan minimal 3 bulan)", ".">>

ConstantNarrative ==
    <<"Data", "konstan", ",", "tidak", "ada", "tren", "yang", "bisa",
      "dianalisis", ".">>

\* TrendType with the two names of a significant trend exchanged
TrendTypeFlipped(v) ==
    IF PValueBelowAlpha(v)
    THEN <<"**", (IF Slope(v)[1] > 0 THEN "menurun" ELSE "meningkat"), "**",
           "secara", "signifikan">>
    ELSE <<"stabil/fluktuatif">>

\* trend_type: significant (p_value < 0.05) and then named by the sign of
\* the slope, otherwise stable
TrendType(v) ==
    IF PValueBelowAlpha(v)
    THEN <<"**", (IF Slope(v)[1] > 0 THEN "meningkat" ELSE "menurun"), "**",
           "secara", "signifikan">>
    ELSE <<"stabil/fluktuatif">>

\* the position of iloc[-13] in a frame or series of n rows (rows count from 1)
YoyRow(n) == n - 12

\* YoyNarrative that looks 12 rows back, from 12 rows on
YoyNarrativeTwelve(v) ==
    LET n == Len(v)
    IN IF n >= 12
       THEN LET last_val == v[n]
                yoy_val == v[n - 11]
            IN IF yoy_val > 0
               THEN <<"Dibandingkan", "bulan", "yang", "sama", "tahun", "lalu",
                      ",", "performa", "bulan", "terakhir", "**",
                      (IF last_val - yoy_val > 0 THEN "tumbuh" ELSE "menurun"),
                      FormatPercent1(Abs(last_val - yoy_val), yoy_val),
                      "**", ".">>
               ELSE <<>>
       ELSE <<>>

\* yoy_narrative: the last value against the value 13 rows from the end
YoyNarrative(v) ==
    LET n == Len(v)
    IN IF n >= 13
       THEN LET last_val == v[n]
                yoy_val == v[YoyRow(n)]
            IN IF yoy_val > 0
               THEN <<"Dibandingkan", "bulan", "yang", "sama", "tahun", "lalu",
                      ",", "performa", "bulan", "terakhir", "**",
                      (IF last_val - yoy_val > 0 THEN "tumbuh" ELSE "menurun"),
                      FormatPercent1(Abs(last_val - yoy_val), yoy_val),
                      "**", ".">>
               ELSE <<>>
       ELSE <<>>

\* MaLine that computes the rolling mean whatever the number of rows
MaLineAlways(v) == RollingMean3(v)

\* ma_line: the rolling mean, computed only for 4 rows or more
MaLine(v) == IF Len(v) >= 4 THEN RollingMean3(v) ELSE None

\* MomentumNarrative with >= for >: equal rolling means count as positive
MomentumNarrativeGE(v) ==
    LET n == Len(v)
    IN IF n >= 4
       THEN Eval(RollingMean3(v),
                 LAMBDA ma_line :
                     IF ~RatGT(ma_line[n - 1], ma_line[n])
                     THEN <<"Momentum", "jangka", "pendek", "(3 bulan terakhir)",
                            "terlihat", "**", "positif", "**", ".">>
                     ELSE <<"Momentum", "jangka", "pendek", "menunjukkan", "**",
                            "perlambatan", "**", ".">>)
       ELSE <<>>

\* momentum_narrative: positive when the last rolling mean exceeds the one
\* before it, slowing in every other case
MomentumNarrative(v) ==
    LET n == Len(v)
    IN IF n >= 4
       THEN Eval(RollingMean3(v),
                 LAMBDA ma_line :
                     IF RatGT(ma_line[n], ma_line[n - 1])
                     THEN <<"Momentum", "jangka", "pendek", "(3 bulan terakhir)",
                            "terlihat", "**", "positif", "**", ".">>
                     ELSE <<"Momentum", "jangka", "pendek", "menunjukkan", "**",
                            "perlambatan", "**", ".">>)
       ELSE <<>>

\* extrema_narrative: the months of the first maximum and the first minimum
ExtremaNarrative(df, col) ==
    LET v == Column(df, col)
    IN <<"Performa", "tertinggi", "tercatat", "pada", "**">>
       \o StrfMonthYear(df[IdxMax(v)].Bulan)
       \o <<"**", "dan", "terendah", "pada", "**">>
       \o StrfMonthYear(df[IdxMin(v)].Bulan)
       \o <<"**", ".">>

\* FullNarrative with the YoY clause ahead of the momentum clause
FullNarrativeYoyFirst(metric_label, trend_type, momentum_narrative, yoy_narrative, extrema_narrative) ==
    <<"Secara", "keseluruhan", ",", "tren", metric_label, "cenderung">>
    \o trend_type \o <<".">>
    \o yoy_narrative \o momentum_narrative \o extrema_narrative

\* full_narrative: the trend sentence and the three clauses, in this order
FullNarrative(metric_label, trend_type, momentum_narrative, yoy_narrative, extrema_narrative) ==
    <<"Secara", "keseluruhan", ",", "tren", metric_label, "cenderung">>
    \o trend_type \o <<".">>
    \o momentum_narrative \o yoy_narrative \o extrema_narrative

analyze_trend_v3(df_monthly, col, metric_label) ==
    LET Regression(df, v) ==
            [narrative |->
                FullNarrative(metric_label, TrendType(v), MomentumNarrative(v),
                              YoyNarrative(v), ExtremaNarrative(df, col)),
             trendline |-> TrendLine(v),
             ma_line |-> MaLine(v),
             p_value |-> [below_alpha |-> PValueBelowAlpha(v)]]
        Analysis(df) ==
            IF Len(df) < 3 THEN [narrative |-> InsufficientNarrative]
            ELSE IF NUnique(df, col) <= 1 THEN [narrative |-> ConstantNarrative]
            ELSE Eval(Column(df, col), LAMBDA v : Regression(df, v))
    IN Eval(DropNa(df_monthly, col), Analysis)

\* analysis.get('narrative', '')
GetNarrative(analysis) ==
    IF "narrative" \in DOMAIN analysis THEN analysis.narrative ELSE <<>>

(***************************************************************************)
(* generate_executive_summary                                              *)
(***************************************************************************)
Labels == <<"Penjualan", "Transaksi", "AOV">>

LabelSet == {Labels[i] : i \in 1..Len(Labels)}

ColumnOf(label) == CHOOSE col \in MetricCols : MetricLabel(col) = label

\* PhraseUp without the bold mark that follows the name of the trend
PhraseUpPlain == <<"meningkat", "secara", "signifikan">>

PhraseUp == <<"meningkat", "**", "secara", "signifikan">>

PhraseDown == <<"menurun", "**", "secara", "signifikan">>

PhraseMomentumPositive ==
    <<"Momentum", "jangka", "pendek", "(3 bulan terakhir)", "terlihat", "**",
      "positif", "**">>

PhraseMomentumSlowing ==
    <<"Momentum", "jangka", "pendek", "menunjukkan", "**", "perlambatan", "**">>

PhraseYoy == <<"Dibandingkan", "bulan", "yang", "sama", "tahun", "lalu">>

\* step 1: one analysis per key metric
Analyses(df) == [l \in LabelSet |-> analyze_trend_v3(df, ColumnOf(l), l)]

\* step 2: the score of the long-term trend of one metric
TrendScore(narrative) ==
    IF Contains(narrative, PhraseUp) THEN 2
    ELSE IF Contains(narrative, PhraseDown) THEN -2
    ELSE 0

\* MomentumScore that takes every narrative without the positive clause as slowing
MomentumScoreElseSlowing(narrative) ==
    IF Contains(narrative, PhraseMomentumPositive) THEN 1 ELSE -1

\* step 2: the score of the short-term momentum of one metric
MomentumScore(narrative) ==
    IF Contains(narrative, PhraseMomentumPositive) THEN 1
    ELSE IF Contains(narrative, PhraseMomentumSlowing) THEN -1
    ELSE 0

\* ScoreDetails with a fourth entry for the YoY change
ScoreDetailsWithYoy(analyses) ==
    [l \in LabelSet \cup {"YoY"} |->
       IF l = "YoY"
       THEN [total |-> 0, tren_jangka_panjang |-> 0, momentum_jangka_pendek |-> 0]
       ELSE Eval(GetNarrative(analyses[l]),
                 LAMBDA narrative :
                     [total |-> TrendScore(narrative) + MomentumScore(narrative),
                      tren_jangka_panjang |-> TrendScore(narrative),
                      momentum_jangka_pendek |-> MomentumScore(narrative)])]

\* ScoreDetails whose total leaves the momentum score out
ScoreDetailsTrendOnly(analyses) ==
    [l \in LabelSet |->
       Eval(GetNarrative(analyses[l]),
            LAMBDA narrative :
                [total |-> TrendScore(narrative),
                 tren_jangka_panjang |-> TrendScore(narrative),
                 momentum_jangka_pendek |-> MomentumScore(narrative)])]

\* step 2: trend score, momentum score and their sum, for each metric
ScoreDetails(analyses) ==
    [l \in LabelSet |->
       LET Details(trend_score, momentum_score) ==
               [total |-> trend_score + momentum_score,
                tren_jangka_panjang |-> trend_score,
                momentum_jangka_pendek |-> momentum_score]
       IN Eval(GetNarrative(analyses[l]),
               LAMBDA narrative :
                   Details(TrendScore(narrative), MomentumScore(narrative)))]

\* HealthScore that adds up the long-term scores only
HealthScoreTrendOnly(score_details) ==
    SumSeq([i \in 1..Len(Labels) |-> score_details[Labels[i]].tren_jangka_panjang])

\* health_score: the running sum of the three totals
HealthScore(score_details) ==
    SumSeq([i \in 1..Len(Labels) |-> score_details[Labels[i]].total])

\* HealthStatus with every threshold one higher in magnitude
HealthStatusShifted(health_score) ==
    IF health_score > 5 THEN <<"Sangat Baik", "green">>
    ELSE IF health_score >= 2 THEN <<"Baik", "green">>
    ELSE IF health_score <= -5 THEN <<"Waspada", "red">>
    ELSE <<"Perlu Perhatian", "orange">>

\* step 3: <<health_status, health_color>> from the total score
HealthStatus(health_score) ==
    IF health_score > 4 THEN <<"Sangat Baik", "green">>
    ELSE IF health_score >= 1 THEN <<"Baik", "green">>
    ELSE IF health_score <= -4 THEN <<"Waspada", "red">>
    ELSE <<"Perlu Perhatian", "orange">>

\* HealthContextNarrative whose first pattern does not look at the transactions
HealthContextNarrativeAnyTrx(analyses) ==
    LET sales_up == Contains(GetNarrative(analyses["Penjualan"]), PhraseUp)
        sales_down == Contains(GetNarrative(analyses["Penjualan"]), PhraseDown)
        trx_up == Contains(GetNarrative(analyses["Transaksi"]), PhraseUp)
        aov_up == Contains(GetNarrative(analyses["AOV"]), PhraseUp)
        aov_down == Contains(GetNarrative(analyses["AOV"]), PhraseDown)
    IN IF sales_up /\ aov_up THEN "Insight Kunci: AOV naik"
       ELSE IF sales_up /\ trx_up /\ aov_down THEN "Perhatian: volume naik, AOV turun"
       ELSE IF sales_down /\ trx_up /\ aov_down THEN "Waspada: penurunan AOV"
       ELSE ""

\* HealthContextNarrative whose second pattern does not look at AOV
HealthContextNarrativeAnyAov(analyses) ==
    LET sales_up == Contains(GetNarrative(analyses["Penjualan"]), PhraseUp)
        sales_down == Contains(GetNarrative(analyses["Penjualan"]), PhraseDown)
        trx_up == Contains(GetNarrative(analyses["Transaksi"]), PhraseUp)
        aov_up == Contains(GetNarrative(analyses["AOV"]), PhraseUp)
        aov_down == Contains(GetNarrative(analyses["AOV"]), PhraseDown)
    IN IF sales_up /\ aov_up /\ ~trx_up THEN "Insight Kunci: AOV naik"
       ELSE IF sales_up /\ trx_up THEN "Perhatian: volume naik, AOV turun"
       ELSE IF sales_down /\ trx_up /\ aov_down THEN "Waspada: penurunan AOV"
       ELSE ""

\* step 4: the contextual narrative from the pattern of the three trends
\* (each message is shortened to its heading and its key words)
HealthContextNarrative(analyses) ==
    LET sales_up == Contains(GetNarrative(analyses["Penjualan"]), PhraseUp)
        sales_down == Contains(GetNarrative(analyses["Penjualan"]), PhraseDown)
        trx_up == Contains(GetNarrative(analyses["Transaksi"]), PhraseUp)
        aov_up == Contains(GetNarrative(analyses["AOV"]), PhraseUp)
        aov_down == Contains(GetNarrative(analyses["AOV"]), PhraseDown)
    IN IF sales_up /\ aov_up /\ ~trx_up THEN "Insight Kunci: AOV naik"
       ELSE IF sales_up /\ trx_up /\ aov_down THEN "Perhatian: volume naik, AOV turun"
       ELSE IF sales_down /\ trx_up /\ aov_down THEN "Waspada: penurunan AOV"
       ELSE ""

\* YoyChangeValue that does not look for the YoY clause in the sales narrative
YoyChangeValueUnguarded(df_monthly, analyses) ==
    LET df == DropNa(df_monthly, "TotalMonthlySales")
        n == Len(df)
    IN IF n >= 13
       THEN LET last_val == df[n].TotalMonthlySales
                yoy_val == df[YoyRow(n)].TotalMonthlySales
            IN IF yoy_val > 0 THEN <<last_val - yoy_val, yoy_val>> ELSE None
       ELSE None

\* yoy_change_value: None, or the rational (last_val - yoy_val) / yoy_val
YoyChangeValue(df_monthly, analyses) ==
    IF Contains(GetNarrative(analyses["Penjualan"]), PhraseYoy)
    THEN LET df == DropNa(df_monthly, "TotalMonthlySales")
             n == Len(df)
         IN IF n >= 13
            THEN LET last_val == df[n].TotalMonthlySales
                     yoy_val == df[YoyRow(n)].TotalMonthlySales
                 IN IF yoy_val > 0 THEN <<last_val - yoy_val, yoy_val>> ELSE None
            ELSE None
    ELSE None

\* the returned dictionary (the recommendations, which are built from the
\* menu, channel and preparation-time columns of df_filtered, are left out)
generate_executive_summary(df_monthly) ==
    LET Result(analyses, score_details, status) ==
            [health_status |-> status[1],
             health_color |-> status[2],
             yoy_change |-> YoyChangeValue(df_monthly, analyses),
             trend_narrative |-> GetNarrative(analyses["Penjualan"]),
             health_context_narrative |-> HealthContextNarrative(analyses),
             score_details |-> score_details,
             next_focus |-> "Pantau dampak eksekusi rekomendasi"]
        Scored(analyses) ==
            Eval(ScoreDetails(analyses),
                 LAMBDA score_details :
                     Eval(HealthStatus(HealthScore(score_details)),
                          LAMBDA status : Result(analyses, score_details, status)))
    IN Eval(Analyses(df_monthly), Scored)

(***************************************************************************)
(* sc3_display_executive_summary                                           *)
(***************************************************************************)
\* the total shown next to the status: the sum of the totals of score_details
DisplayedTotal(s) ==
    SumSeq([i \in 1..Len(Labels) |-> s.score_details[Labels[i]].total])

\* the bands of the score legend that hold a score: Sangat Baik for a score
\* > 4, Baik for 1 to 4, Perlu Perhatian for -3 to 0, Waspada for a score < -4
LegendBands(score) ==
    {band \in {"Sangat Baik", "Baik", "Perlu Perhatian", "Waspada"} :
        \/ band = "Sangat Baik" /\ score > 4
        \/ band = "Baik" /\ score >= 1 /\ score <= 4
        \/ band = "Perlu Perhatian" /\ score >= -3 /\ score <= 0
        \/ band = "Waspada" /\ score < -4}

(***************************************************************************)
(* Input frames                                                            *)
(***************************************************************************)
\* what one month of filtered rows aggregates to: the sum of Nett Sales and
\* the number of distinct bills
Profiles == [s : SalesVals, t : TrxVals]

\* the frame of consecutive months with the given monthly profiles; with
\* gapAfter > 0 the calendar month after row gapAfter has no data and hence
\* no row
Frame(profs, gapAfter) ==
    [i \in 1..Len(profs) |->
       MonthlyRow(StartBulan + (i - 1)
                    + (IF gapAfter > 0 /\ i > gapAfter THEN 1 ELSE 0),
                  profs[i].s, profs[i].t, {})]

\* every frame of at most MaxMonths consecutive months
ShortFrame(df) ==
    \E n \in 0..MaxMonths :
        \E ps \in [1..n -> [s : ShortSalesVals, t : TrxVals]] : df = Frame(ps, 0)

\* a frame whose first month has an undefined sales total (and hence an
\* undefined AOV)
NullFirst(f) ==
    [i \in 1..Len(f) |->
       IF i = 1 THEN [f[i] EXCEPT !.na = {"TotalMonthlySales", "AOV"}] ELSE f[i]]

NullFrame(df) ==
    \E n \in 1..MaxMonths :
        \E ps \in [1..n -> [s : SalesVals, t : {1}]] : df = NullFirst(Frame(ps, 0))

\* frames of about a year: k months of one profile and then months of
\* another, with all months present or with the month after row k missing
LongFrame(df) ==
    \E n \in 12..(13 + MaxExtra), k \in 1..11 :
        \E p \in Profiles, q \in Profiles, g \in {0, k} :
            df = Frame([i \in 1..n |-> IF i <= k THEN p ELSE q], g)

\* frames of about a year whose last month departs from the months before
\* it: TailStep months of one profile, then months of a second, and a last
\* month of a third
TailFrame(df) ==
    \E n \in 12..(13 + MaxExtra) :
        \E p \in Profiles, q \in Profiles, r \in Profiles :
            df = Frame([i \in 1..n |->
                          IF i <= TailStep THEN p ELSE IF i < n THEN q ELSE r], 0)

\* frames whose sales change by the same amount every month, the number of
\* transactions being the same in every month
LinearFrame(df) ==
    \E n \in 3..MaxLinear, a \in LinearStarts, d \in LinearSteps, t \in TrxVals :
        df = Frame([i \in 1..n |-> [s |-> a + d * (i - 1), t |-> t]], 0)

\* the four months of ScenarioSales
ScenarioFrame(df) ==
    \E t \in TrxVals :
        df = Frame([i \in 1..Len(ScenarioSales) |-> [s |-> ScenarioSales[i], t |-> t]], 0)

(***************************************************************************)
(* Specification: one call of either function on an input frame            *)
(***************************************************************************)
Init ==
    /\ \/ ShortFrame(monthly_agg)
       \/ NullFrame(monthly_agg)
       \/ LongFrame(monthly_agg)
       \/ TailFrame(monthly_agg)
       \/ LinearFrame(monthly_agg)
       \/ ScenarioFrame(monthly_agg)
    /\ pc = "input"
    /\ metric_col = ""
    /\ trend_result = None
    /\ summary = None
    /\ df_filtered = <<>>
    /\ ratios = {}
    /\ displayed = {}
    /\ session_state = <<>>
    /\ auth_status = "None"
    /\ apply_button = FALSE

\* analyze_trend_v3(monthly_agg, col, label), as create_trend_chart_v3 and
\* generate_executive_summary call it
AnalyzeTrend(col) ==
    /\ pc = "input"
    /\ metric_col' = col
    /\ trend_result' = analyze_trend_v3(monthly_agg, col, MetricLabel(col))
    /\ pc' = "trend"
    /\ UNCHANGED <<monthly_agg, summary, df_filtered, ratios, displayed>>
    /\ UNCHANGED sessionVars

\* summary = generate_executive_summary(df_filtered, monthly_agg)
GenerateExecutiveSummary ==
    /\ pc = "input"
    /\ summary' = generate_executive_summary(monthly_agg)
    /\ pc' = "summary"
    /\ UNCHANGED <<monthly_agg, metric_col, trend_result, df_filtered, ratios, displayed>>
    /\ UNCHANGED sessionVars

Next ==
    \/ \E col \in MetricCols : AnalyzeTrend(col)
    \/ GenerateExecutiveSummary

Spec == Init /\ [][Next]_vars

(***************************************************************************)
(* The filtered sales data and its aggregations                            *)
(***************************************************************************)
\* a Bill Number that is missing in the uploaded file
NaN == "NaN"

\* one row of df_filtered: the month of its Sales Date, Nett Sales (numeric,
\* missing values filled with 0), Bill Number (as uploaded) and Visit Purpose
SalesRow(bulan, sales, bill, channel) ==
    [Bulan |-> bulan, NettSales |-> sales, BillNumber |-> bill,
     VisitPurpose |-> channel]

\* the frame without the optional column Visit Purpose
WithoutVisitPurpose(df) ==
    [i \in 1..Len(df) |->
       [Bulan |-> df[i].Bulan, NettSales |-> df[i].NettSales,
        BillNumber |-> df[i].BillNumber]]

\* 'Visit Purpose' in df.columns
HasVisitPurpose(df) == \A i \in 1..Len(df) : "VisitPurpose" \in DOMAIN df[i]

\* the keys of a groupby, in ascending order
RECURSIVE SortAsc(_)
SortAsc(S) ==
    IF S = {} THEN <<>>
    ELSE LET m == CHOOSE x \in S : \A y \in S : x <= y
         IN <<m>> \o SortAsc(S \ {m})

\* ('Nett Sales', 'sum') over the rows of a group
GroupSales(df, key, k) ==
    SumSeq([i \in 1..Len(df) |-> IF df[i][key] = k THEN df[i].NettSales ELSE 0])

\* ('Bill Number', 'nunique') over the rows of a group: missing values are
\* not counted
GroupBills(df, key, k) ==
    Cardinality({df[i].BillNumber : i \in {j \in 1..Len(df) : df[j][key] = k}} \ {NaN})

\* monthly_agg: one row for each month that has rows in df_filtered
MonthlyAgg(df) ==
    LET months == SortAsc({df[i].Bulan : i \in 1..Len(df)})
    IN [j \in 1..Len(months) |->
          MonthlyRow(months[j],
                     GroupSales(df, "Bulan", months[j]),
                     GroupBills(df, "Bulan", months[j]),
                     {})]

\* the divisions of one kind, each with its denominator
Logged(site, dens) == {[site |-> site, den |-> d] : d \in dens}

\* the denominators of row['TotalMonthlySales'] / row['TotalTransactions']:
\* the division is made for the rows with TotalTransactions > 0
MonthlyAovDenominators(agg) ==
    {agg[i].TotalTransactions : i \in {j \in 1..Len(agg) : agg[j].TotalTransactions > 0}}

\* the denominator of (last_val - yoy_val) / yoy_val in analyze_trend_v3
TrendYoyDenominators(df_monthly, col) ==
    LET df == DropNa(df_monthly, col)
        n == Len(df)
    IN IF n < 3 \/ NUnique(df, col) <= 1 THEN {}
       ELSE IF n >= 13 /\ df[YoyRow(n)][col] > 0 THEN {df[YoyRow(n)][col]}
       ELSE {}

\* the denominator of (last_val - yoy_val) / yoy_val in generate_executive_summary
SummaryYoyDenominators(df_monthly) ==
    LET yoy_change_value == YoyChangeValue(df_monthly, Analyses(df_monthly))
    IN IF yoy_change_value # None THEN {yoy_change_value[2]} ELSE {}

\* the denominators of agg_data['TotalSales'] / agg_data['TotalBills']: the
\* division is made for every Visit Purpose that has rows
ChannelAovDenominators(df) ==
    IF HasVisitPurpose(df)
    THEN {GroupBills(df, "VisitPurpose", c) :
             c \in {df[i].VisitPurpose : i \in 1..Len(df)}}
    ELSE {}

\* the denominators of (current_val - prev_val) / prev_val in display_kpi,
\* called for the three metrics of the last two months
KpiDeltaDenominators(agg) ==
    IF Len(agg) >= 2
    THEN {agg[Len(agg) - 1][col] : col \in {c \in MetricCols : agg[Len(agg) - 1][c] > 0}}
    ELSE {}

\* SummaryGuard that asks for a single month
SummaryGuardNonEmpty(agg) == Len(agg) # 0 /\ Len(agg) >= 1

\* not monthly_agg.empty and len(monthly_agg) >= 3
SummaryGuard(agg) == Len(agg) # 0 /\ Len(agg) >= 3

(***************************************************************************)
(* Inputs of the dashboard run                                             *)
(***************************************************************************)
\* longest of the exhaustively enumerated filtered frames, in months
MaxDashMonths == 3
\* Nett Sales of a row (an empty bill and 150)
DashSalesVals == {0, 3}
\* Bill Number of a row
BillVals == {NaN, "A"}
\* Visit Purpose of a row
Channels == {"Dine In", "Take Away"}

\* what the rows of one month are: one row
RowKinds == [s : DashSalesVals, b : BillVals, c : Channels]

\* the filtered frame of consecutive months with one row each
DashRows(kinds) ==
    [i \in 1..Len(kinds) |->
       SalesRow(StartBulan + (i - 1), kinds[i].s, kinds[i].b, kinds[i].c)]

\* every filtered frame of 1..MaxDashMonths months, with or without the
\* column Visit Purpose (a filtered frame without rows stops the run before
\* the dashboard)
ShortData(df) ==
    \E n \in 1..MaxDashMonths :
        \E ks \in [1..n -> RowKinds], mapped \in BOOLEAN :
            df = IF mapped THEN DashRows(ks) ELSE WithoutVisitPurpose(DashRows(ks))

\* filtered frames of a year and more: k months of one kind of row and then
\* months of another
LongData(df) ==
    \E n \in 13..(13 + MaxExtra), k \in {1, TailStep} :
        \E p \in RowKinds, q \in RowKinds :
            df = DashRows([i \in 1..n |-> IF i <= k THEN p ELSE q])

(***************************************************************************)
(* Specification: one run of the dashboard on the filtered data            *)
(***************************************************************************)
DashInit ==
    /\ \/ ShortData(df_filtered)
       \/ LongData(df_filtered)
    /\ pc = "filtered"
    /\ monthly_agg = <<>>
    /\ metric_col = ""
    /\ trend_result = None
    /\ summary = None
    /\ ratios = {}
    /\ displayed = {}
    /\ session_state = <<>>
    /\ auth_status = "None"
    /\ apply_button = FALSE

\* the monthly aggregation made ahead of the summary
AggregateMonthly ==
    /\ pc = "filtered"
    /\ monthly_agg' = MonthlyAgg(df_filtered)
    /\ ratios' = ratios \cup Logged("monthly_aov", MonthlyAovDenominators(monthly_agg'))
    /\ pc' = "aggregated"
    /\ UNCHANGED <<metric_col, trend_result, summary, df_filtered, displayed>>
    /\ UNCHANGED sessionVars

\* the executive summary, computed and displayed under its guard
ExecutiveSummary ==
    /\ pc = "aggregated"
    /\ IF SummaryGuard(monthly_agg)
       THEN /\ summary' = generate_executive_summary(monthly_agg)
            /\ ratios' = ratios
                 \cup Logged("trend_yoy",
                             UNION {TrendYoyDenominators(monthly_agg, col) : col \in MetricCols})
                 \cup Logged("summary_yoy", SummaryYoyDenominators(monthly_agg))
                 \cup Logged("channel_aov", ChannelAovDenominators(df_filtered))
            /\ displayed' = displayed \cup {"executive_summary"}
       ELSE UNCHANGED <<summary, ratios, displayed>>
    /\ pc' = "summarised"
    /\ UNCHANGED <<monthly_agg, metric_col, trend_result, df_filtered>>
    /\ UNCHANGED sessionVars

\* the trend tab: the aggregation again, the three KPIs and the three charts
\* (monthly_agg is never empty here, df_filtered having rows)
TrendTab ==
    /\ pc = "summarised"
    /\ monthly_agg' = MonthlyAgg(df_filtered)
    /\ trend_result' = Analyses(monthly_agg')
    /\ ratios' = ratios
         \cup Logged("monthly_aov", MonthlyAovDenominators(monthly_agg'))
         \cup Logged("kpi_delta", KpiDeltaDenominators(monthly_agg'))
         \cup Logged("trend_yoy",
                     UNION {TrendYoyDenominators(monthly_agg', col) : col \in MetricCols})
    /\ displayed' = displayed \cup {"kpi", "trend_charts"}
    /\ pc' = "trend_tab"
    /\ UNCHANGED <<metric_col, summary, df_filtered>>
    /\ UNCHANGED sessionVars

\* the operational tab: create_channel_analysis (the menu and efficiency
\* analyses make no division of the kinds recorded)
OpsTab ==
    /\ pc = "trend_tab"
    /\ ratios' = ratios \cup Logged("channel_aov", ChannelAovDenominators(df_filtered))
    /\ displayed' = displayed
         \cup {IF HasVisitPurpose(df_filtered) THEN "channel_analysis" ELSE "channel_warning"}
    /\ pc' = "done"
    /\ UNCHANGED <<monthly_agg, metric_col, trend_result, summary, df_filtered>>
    /\ UNCHANGED sessionVars

DashNext ==
    \/ AggregateMonthly
    \/ ExecutiveSummary
    \/ TrendTab
    \/ OpsTab

DashSpec == DashInit /\ [][DashNext]_vars

(***************************************************************************)
(* st.session_state                                                        *)
(***************************************************************************)
\* A session key is the sequence of the parts of its name, so that
\* key.startswith("map_") can be decided: "map_req_Menu" is
\* <<"map_", "req_", "Menu">>.  st.session_state is a function from the keys
\* it holds to their values.
KeyDataProcessed == <<"data_processed">>

KeyDfProcessed == <<"df_processed">>

\* the key of the file uploader; its value is the uploaded file, or None
KeyUploader == <<"sales_uploader">>

\* f"map_req_{internal_name}" and f"map_opt_{internal_name}"
MapKey(kind, internal_name) == <<"map_", kind, internal_name>>

\* key.startswith("map_")
StartsWithMap(key) == key[1] = "map_"

\* st.session_state[key] = value
SetKey(ss, key, value) ==
    [k \in DOMAIN ss \cup {key} |-> IF k = key THEN value ELSE ss[k]]

\* del st.session_state[key] for every key of a set
DelKeys(ss, keys) == [k \in DOMAIN ss \ keys |-> ss[k]]

\* reset_processing_state that also forgets the processed frame
ResetForgetsFrame(ss) ==
    DelKeys(SetKey(ss, KeyDataProcessed, FALSE),
            {k \in DOMAIN ss : StartsWithMap(k)} \cup {KeyDfProcessed})

\* reset_processing_state that leaves data_processed as it is
ResetKeepsProcessed(ss) == DelKeys(ss, {k \in DOMAIN ss : StartsWithMap(k)})

\* the on_change callback of the file uploader
reset_processing_state(ss) ==
    DelKeys(SetKey(ss, KeyDataProcessed, FALSE),
            {k \in DOMAIN ss : StartsWithMap(k)})

\* if 'data_processed' not in st.session_state: ... = False
InitDataProcessed(ss) ==
    IF KeyDataProcessed \in DOMAIN ss THEN ss ELSE SetKey(ss, KeyDataProcessed, FALSE)

\* the value of the file uploader
UploadedFile(ss) == IF KeyUploader \in DOMAIN ss THEN ss[KeyUploader] ELSE None

(***************************************************************************)
(* Uploaded files and the column mapping                                   *)
(***************************************************************************)
REQUIRED_COLS_MAP ==
    <<"Sales Date", "Branch", "Bill Number", "Nett Sales", "Menu", "Qty">>

OPTIONAL_COLS_MAP ==
    <<"Visit Purpose", "Payment Method", "Sales Date In", "Sales Date Out",
      "Order Time">>

RequiredNames == {REQUIRED_COLS_MAP[i] : i \in 1..Len(REQUIRED_COLS_MAP)}

OptionalNames == {OPTIONAL_COLS_MAP[i] : i \in 1..Len(OPTIONAL_COLS_MAP)}

\* the select boxes of the mapping, as <<kind, internal_name>>
Roles ==
    {<<"req_", name>> : name \in RequiredNames}
      \cup {<<"opt_", name>> : name \in OptionalNames}

\* the files a user uploads (a file is the tuple of its name): a report whose
\* columns carry the internal names, and an export that has no sales channel
\* and calls the quantity Jumlah
ReportFile == <<"sales_recapitulation.xlsx">>

ExportFile == <<"export.csv">>

Files == {ReportFile, ExportFile}

\* df_raw.columns of load_raw_data(file)
FileColumns(file) ==
    IF file = ReportFile THEN RequiredNames \cup {"Visit Purpose"}
    ELSE (RequiredNames \ {"Qty"}) \cup {"Jumlah"}

\* find_best_match on these files: a column named after the role holds the
\* first keyword of the role, and no other column of these files holds a
\* keyword of the role; "" stands for no match (index 0 of the options)
BestGuess(file, internal_name) ==
    IF internal_name \in FileColumns(file) THEN internal_name ELSE ""

\* the options of a select box that the user of the model picks from: no
\* column, or the column of the file meant for the role; Jumlah for Qty; and
\* for Menu also the column of Branch
Selectable(file, internal_name) ==
    {""} \cup {col \in FileColumns(file) :
                 \/ col = internal_name /\ internal_name \in {"Sales Date", "Menu", "Qty", "Visit Purpose"}
                 \/ col = "Jumlah" /\ internal_name = "Qty"
                 \/ col = "Branch" /\ internal_name = "Menu"}

\* the select boxes of the two expanders: a select box without a value in
\* the session state takes the best guess
RenderMapping(ss, file) ==
    [k \in DOMAIN ss \cup {MapKey(r[1], r[2]) : r \in Roles} |->
       IF k \in DOMAIN ss THEN ss[k] ELSE BestGuess(file, k[3])]

\* user_mapping: the roles with a selection, each with its source column
UserMapping(ss) ==
    LET chosen == {r \in Roles : ss[MapKey(r[1], r[2])] # ""}
    IN [name \in {r[2] : r \in chosen} |->
          ss[MapKey((CHOOSE r \in chosen : r[2] = name)[1], name)]]

\* AllRequiredMapped that is content with one required column
AnyRequiredMapped(user_mapping) == \E name \in RequiredNames : name \in DOMAIN user_mapping

\* all(mapped_req_cols)
AllRequiredMapped(user_mapping) == \A name \in RequiredNames : name \in DOMAIN user_mapping

\* len(chosen_cols) != len(set(chosen_cols))
HasDuplicates(user_mapping) ==
    \E a \in DOMAIN user_mapping, b \in DOMAIN user_mapping :
        a # b /\ user_mapping[a] = user_mapping[b]

\* the processed frame: the mapped columns of the raw data of the file
BuildFrame(file, user_mapping) == [file |-> file, mapping |-> user_mapping]

\* ApplyStore that sets the flag without storing the frame
ApplyStoreFlagOnly(ss, df) == SetKey(ss, KeyDataProcessed, TRUE)

\* st.session_state.df_processed = df; st.session_state.data_processed = True
ApplyStore(ss, df) == SetKey(SetKey(ss, KeyDfProcessed, df), KeyDataProcessed, TRUE)

\* Authenticated that takes a login not yet attempted as a login
AuthenticatedUnlessFalse(status) == status # "False"

\* elif auth_status: (auth_status is "True", "False" or "None")
Authenticated(status) == status = "True"

\* AfterApply without the rerun
AfterApplyIdle == "idle"

\* st.rerun(): the script is run again at once
AfterApply == "run"

\* the number of dates a user may have picked in the date input
DateCounts == {1, 2}

\* what a run renders up to the Apply button
MappingSections == {"sidebar", "uploader", "mapping"}

(***************************************************************************)
(* Specification: the script runs of a browser session                     *)
(***************************************************************************)
SessionInit ==
    /\ pc = "run"
    /\ session_state = <<>>
    /\ auth_status = "None"
    /\ apply_button = FALSE
    /\ displayed = {}
    /\ monthly_agg = <<>>
    /\ metric_col = ""
    /\ trend_result = None
    /\ summary = None
    /\ df_filtered = <<>>
    /\ ratios = {}

\* the state of the widgets a run did not render may be discarded
MayDiscard(ss, keys) == {ss, DelKeys(ss, keys)}

\* the dashboard branch, once the Apply button is passed
DashboardRun(ss) ==
    /\ session_state' = ss
    /\ pc' = "idle"
    /\ IF ss[KeyDataProcessed]
       THEN IF KeyDfProcessed \in DOMAIN ss
            THEN \E dates \in DateCounts, rows \in BOOLEAN :
                    displayed' = MappingSections \cup
                        (IF dates # 2 THEN {"filters"}
                         ELSE IF ~rows THEN {"filters", "warning_empty"}
                         ELSE {"filters", "dashboard"})
            ELSE displayed' = MappingSections \cup {"exception"}
       ELSE displayed' = MappingSections

\* the block of the Apply button
ApplyRun(ss, file, user_mapping) ==
    IF ~AllRequiredMapped(user_mapping)
    THEN /\ session_state' = ss
         /\ displayed' = MappingSections \cup {"error_required"}
         /\ pc' = "idle"
    ELSE IF HasDuplicates(user_mapping)
    THEN /\ session_state' = ss
         /\ displayed' = MappingSections \cup {"error_duplicate"}
         /\ pc' = "idle"
    ELSE \E raises \in BOOLEAN :
            IF raises
            THEN /\ session_state' = ss
                 /\ displayed' = MappingSections \cup {"error_processing"}
                 /\ pc' = "idle"
            ELSE /\ session_state' = ApplyStore(ss, BuildFrame(file, user_mapping))
                 /\ displayed' = MappingSections \cup {"apply_success"}
                 /\ pc' = AfterApply

\* the authenticated section of the script
AuthenticatedRun(ss) ==
    IF UploadedFile(ss) = None
    THEN /\ displayed' = {"sidebar", "uploader", "info_welcome"}
         /\ session_state' \in MayDiscard(ss, {k \in DOMAIN ss : StartsWithMap(k)})
         /\ pc' = "idle"
    ELSE \E mapped \in {RenderMapping(ss, UploadedFile(ss))} :
            IF apply_button
            THEN ApplyRun(mapped, UploadedFile(ss), UserMapping(mapped))
            ELSE DashboardRun(mapped)

\* one run of the script, from the login to its end, a stop or a rerun
ScriptRun ==
    /\ pc = "run"
    /\ apply_button' = FALSE
    /\ UNCHANGED auth_status
    /\ UNCHANGED analysisVars
    /\ IF Authenticated(auth_status)
       THEN AuthenticatedRun(InitDataProcessed(session_state))
       ELSE /\ displayed' = {IF auth_status = "False" THEN "error_login" ELSE "warning_login"}
            /\ session_state' \in MayDiscard(session_state,
                     {k \in DOMAIN session_state : StartsWithMap(k) \/ k = KeyUploader})
            /\ pc' = "idle"

\* the user submits the login form, with the right or a wrong password
Login(status) ==
    /\ pc = "idle"
    /\ auth_status # "True"
    /\ auth_status' = status
    /\ pc' = "run"
    /\ UNCHANGED <<session_state, apply_button, displayed>>
    /\ UNCHANGED analysisVars

Logout ==
    /\ pc = "idle"
    /\ auth_status = "True"
    /\ auth_status' = "None"
    /\ pc' = "run"
    /\ UNCHANGED <<session_state, apply_button, displayed>>
    /\ UNCHANGED analysisVars

\* the user uploads another file, or removes the file: the uploader takes
\* the new value and its on_change callback runs, ahead of the script
ChangeFile(file) ==
    /\ pc = "idle"
    /\ "uploader" \in displayed
    /\ file # UploadedFile(session_state)
    /\ session_state' = reset_processing_state(SetKey(session_state, KeyUploader, file))
    /\ pc' = "run"
    /\ UNCHANGED <<auth_status, apply_button, displayed>>
    /\ UNCHANGED analysisVars

\* the user picks another option in a select box of the mapping
SelectColumn(role, col) ==
    /\ pc = "idle"
    /\ "mapping" \in displayed
    /\ col \in Selectable(UploadedFile(session_state), role[2])
    /\ col # session_state[MapKey(role[1], role[2])]
    /\ session_state' = SetKey(session_state, MapKey(role[1], role[2]), col)
    /\ pc' = "run"
    /\ UNCHANGED <<auth_status, apply_button, displayed>>
    /\ UNCHANGED analysisVars

\* the user presses the Apply button
PressApply ==
    /\ pc = "idle"
    /\ "mapping" \in displayed
    /\ apply_button' = TRUE
    /\ pc' = "run"
    /\ UNCHANGED <<session_state, auth_status, displayed>>
    /\ UNCHANGED analysisVars

\* the user changes a filter of the dashboard
ChangeFilters ==
    /\ pc = "idle"
    /\ "filters" \in displayed
    /\ pc' = "run"
    /\ UNCHANGED <<session_state, auth_status, apply_button, displayed>>
    /\ UNCHANGED analysisVars

SessionNext ==
    \/ ScriptRun
    \/ \E status \in {"True", "False"} : Login(status)
    \/ Logout
    \/ \E file \in Files \cup {None} : ChangeFile(file)
    \/ \E role \in Roles, col \in FileColumns(ReportFile) \cup FileColumns(ExportFile) \cup {""} :
          SelectColumn(role, col)
    \/ PressApply
    \/ ChangeFilters

SessionSpec == SessionInit /\ [][SessionNext]_vars

\* a run that is due is made
LiveSessionSpec == SessionSpec /\ WF_vars(ScriptRun)

(***************************************************************************)
(* Vocabulary of the properties                                            *)
(***************************************************************************)
InTrend == pc = "trend"

InSummary == pc = "summary"

\* the rows of the analysed column that hold a value, by position in the frame
NonNullRows == {i \in 1..Len(monthly_agg) : metric_col \notin monthly_agg[i].na}

\* the observations analyze_trend_v3 was called on, in chronological order
Observed == DropNa(monthly_agg, metric_col)

Series == Column(Observed, metric_col)

NonConstant == \E i, j \in 1..Len(Series) : Series[i] # Series[j]

FullKeys == {"narrative", "trendline", "ma_line", "p_value"}

\* the call computed a regression
FullResult == InTrend /\ DOMAIN trend_result = FullKeys

HasPositive == Contains(trend_result.narrative, PhraseMomentumPositive)

HasSlowing == Contains(trend_result.narrative, PhraseMomentumSlowing)

HasYoy == Contains(trend_result.narrative, PhraseYoy)

\* three times the last rolling mean and three times the one before it
LastWindow ==
    LET n == Len(Series) IN Series[n - 2] + Series[n - 1] + Series[n]

PrevWindow ==
    LET n == Len(Series) IN Series[n - 3] + Series[n - 2] + Series[n - 1]

\* the sum of the totals recorded in score_details for the three metrics
TotalScore ==
    summary.score_details["Penjualan"].total
    + summary.score_details["Transaksi"].total
    + summary.score_details["AOV"].total

\* the non-null monthly sales the summary was computed from
SalesSeries == Column(DropNa(monthly_agg, "TotalMonthlySales"), "TotalMonthlySales")

SalesNonConstant == \E i, j \in 1..Len(SalesSeries) : SalesSeries[i] # SalesSeries[j]

\* the YoY score of the stated scoring rule, for a fractional change num / den
StatedYoyScore(yoy_change) ==
    IF yoy_change = None THEN 0
    ELSE LET num == yoy_change[1]
             den == yoy_change[2]
         IN IF 100 * num > 15 * den THEN 2
            ELSE IF 100 * num > 5 * den THEN 1
            ELSE IF 100 * num < -15 * den THEN -2
            ELSE IF 100 * num < -5 * den THEN -1
            ELSE 0

(***************************************************************************)
(* C1.  Status thresholds                                                  *)
(***************************************************************************)
\* C1 as stated: the status is Sangat Baik for a score above 5, Baik for a
\* score of at least 2, Waspada for a score of at most -5 and Perlu Perhatian
\* otherwise.
C1_StatedThresholds ==
    InSummary =>
        summary.health_status =
            (IF TotalScore > 5 THEN "Sangat Baik"
             ELSE IF TotalScore >= 2 THEN "Baik"
             ELSE IF TotalScore <= -5 THEN "Waspada"
             ELSE "Perlu Perhatian")

\* C1 amended: the status is Sangat Baik (green) exactly for a score above 4,
\* Baik (green) exactly for a score from 1 to 4, Waspada (red) exactly for a
\* score of at most -4, and Perlu Perhatian (orange) exactly for a score from
\* -3 to 0; so 6, 2, 1, 0, -4, -5, -6 give Sangat Baik, Baik, Baik, Perlu
\* Perhatian, Waspada, Waspada, Waspada.
C1_StatusThresholds ==
    InSummary =>
        /\ (summary.health_status = "Sangat Baik") <=> (TotalScore > 4)
        /\ (summary.health_status = "Baik") <=> (TotalScore \in 1..4)
        /\ (summary.health_status = "Waspada") <=> (TotalScore <= -4)
        /\ (summary.health_status = "Perlu Perhatian") <=> (TotalScore \in -3..0)
        /\ (summary.health_color = "green") <=> (TotalScore >= 1)
        /\ (summary.health_color = "red") <=> (TotalScore <= -4)
        /\ (summary.health_color = "orange") <=> (TotalScore \in -3..0)

\* a summary whose score is 1, the lowest score with status Baik
C1_Witness == InSummary /\ TotalScore = 1 /\ summary.health_status = "Baik"

(***************************************************************************)
(* C2.  What the status is classified from                                 *)
(***************************************************************************)
\* C2 as stated: the status is classified from the sum of the three metric
\* totals plus a YoY score derived from the sales YoY change, and that YoY
\* score is recorded as a fourth entry of score_details.
C2_StatedComposite ==
    InSummary =>
        /\ summary.health_status
             = HealthStatus(TotalScore + StatedYoyScore(summary.yoy_change))[1]
        /\ "YoY" \in DOMAIN summary.score_details
        /\ summary.score_details["YoY"]
             = [total |-> StatedYoyScore(summary.yoy_change),
                tren_jangka_panjang |-> StatedYoyScore(summary.yoy_change),
                momentum_jangka_pendek |-> 0]

\* C2 amended: the status is classified from the sum of the three metric
\* totals alone, whatever the sales YoY change is, and score_details has
\* exactly the three entries Penjualan, Transaksi and AOV.
C2_StatusFromTrendScore ==
    InSummary =>
        /\ DOMAIN summary.score_details = {"Penjualan", "Transaksi", "AOV"}
        /\ <<summary.health_status, summary.health_color>> = HealthStatus(TotalScore)

\* a summary with a YoY change whose stated score would have changed the status
C2_Witness ==
    /\ InSummary
    /\ summary.yoy_change # None
    /\ HealthStatus(TotalScore + StatedYoyScore(summary.yoy_change))[1]
         # summary.health_status

(***************************************************************************)
(* C3.  Momentum clause from the last two rolling means                    *)
(***************************************************************************)
\* C3 as stated: with at least 4 observations, not all equal, the narrative
\* has the positive clause when the last rolling mean exceeds the one before
\* it, the slowing clause when it is less, and no momentum clause when the
\* two are equal.
C3_StatedMomentum ==
    (InTrend /\ Len(Series) >= 4 /\ NonConstant) =>
        /\ (LastWindow > PrevWindow) => (HasPositive /\ ~HasSlowing)
        /\ (LastWindow < PrevWindow) => (HasSlowing /\ ~HasPositive)
        /\ (LastWindow = PrevWindow) => (~HasPositive /\ ~HasSlowing)

\* C3 amended: with at least 4 observations, not all equal, the narrative has
\* the positive clause when the last rolling mean exceeds the one before it,
\* and the slowing clause when it is less or when the two are equal.
C3_Momentum ==
    (InTrend /\ Len(Series) >= 4 /\ NonConstant) =>
        /\ (LastWindow > PrevWindow) => (HasPositive /\ ~HasSlowing)
        /\ (LastWindow < PrevWindow) => (HasSlowing /\ ~HasPositive)
        /\ (LastWindow = PrevWindow) => (HasSlowing /\ ~HasPositive)

\* an analysis of a series whose last two rolling means are equal
C3_Witness ==
    /\ InTrend /\ Len(Series) >= 4 /\ NonConstant
    /\ LastWindow = PrevWindow
    /\ HasSlowing

(***************************************************************************)
(* C4.  Momentum of strictly monotone series of 4 months                   *)
(***************************************************************************)
StrictlyIncreasing == \A i \in 1..(Len(Series) - 1) : Series[i] < Series[i + 1]

StrictlyDecreasing == \A i \in 1..(Len(Series) - 1) : Series[i] > Series[i + 1]

\* C4: a series of exactly 4 months with strictly increasing values has the
\* positive-momentum clause, one with strictly decreasing values the slowing
\* clause.
C4_MonotoneMomentum ==
    (InTrend /\ Len(Series) = 4) =>
        /\ StrictlyIncreasing => (HasPositive /\ ~HasSlowing)
        /\ StrictlyDecreasing => (HasSlowing /\ ~HasPositive)

\* an analysis of 4 strictly increasing months
C4_Witness == InTrend /\ Len(Series) = 4 /\ StrictlyIncreasing /\ HasPositive

(***************************************************************************)
(* C5.  Fewer than 3 observations                                          *)
(***************************************************************************)
\* C5: with fewer than 3 non-null observations of the metric the result has
\* the narrative as its only field, and the narrative is the insufficient-data
\* message.
C5_InsufficientData ==
    (InTrend /\ Cardinality(NonNullRows) < 3) =>
        /\ DOMAIN trend_result = {"narrative"}
        /\ trend_result.narrative
             = <<"Data", "tidak", "cukup", "untuk", "analisis", "tren",
                 "(dibutuhkan minimal 3 bulan)", ".">>

\* an analysis of a frame of 3 rows or more of which fewer than 3 hold a value
C5_Witness ==
    /\ InTrend
    /\ Len(monthly_agg) >= 3
    /\ Cardinality(NonNullRows) < 3
    /\ DOMAIN trend_result = {"narrative"}

(***************************************************************************)
(* C6.  Constant series                                                    *)
(***************************************************************************)
\* C6: with 3 or more non-null observations, all identical, the result has the
\* narrative as its only field, and the narrative is the constant-data
\* message, whatever the length of the series.
C6_ConstantData ==
    (InTrend /\ Cardinality(NonNullRows) >= 3 /\ ~NonConstant) =>
        /\ DOMAIN trend_result = {"narrative"}
        /\ trend_result.narrative
             = <<"Data", "konstan", ",", "tidak", "ada", "tren", "yang", "bisa",
                 "dianalisis", ".">>

\* an analysis of a constant series of 13 months or more
C6_Witness ==
    /\ InTrend /\ Len(Series) >= 13 /\ ~NonConstant
    /\ DOMAIN trend_result = {"narrative"}

(***************************************************************************)
(* C7.  Trend classification                                               *)
(***************************************************************************)
HasUp == Contains(trend_result.narrative, PhraseUp)

HasDown == Contains(trend_result.narrative, PhraseDown)

HasStable == Contains(trend_result.narrative, <<"cenderung", "stabil/fluktuatif", ".">>)

\* C7: when a regression was computed, the narrative says increasing
\* significantly exactly when p_value < 0.05 and the slope is positive,
\* decreasing significantly exactly when p_value < 0.05 and the slope is not
\* positive, stable exactly when p_value >= 0.05; exactly one of the three.
C7_TrendClassification ==
    FullResult =>
        /\ HasUp <=> (trend_result.p_value.below_alpha /\ SxyN(Series) > 0)
        /\ HasDown <=> (trend_result.p_value.below_alpha /\ SxyN(Series) <= 0)
        /\ HasStable <=> ~trend_result.p_value.below_alpha
        /\ Cardinality({k \in 1..3 : <<HasUp, HasDown, HasStable>>[k]}) = 1

\* an analysis that found a significant decrease
C7_Witness ==
    FullResult /\ trend_result.p_value.below_alpha /\ SxyN(Series) < 0 /\ HasDown

(***************************************************************************)
(* C8.  Presence and content of the year-over-year clause                  *)
(***************************************************************************)
\* C8 as stated: the YoY clause is in the narrative exactly when the series
\* has at least 13 observations and the observation 13 from the end is > 0.
C8_StatedYoyClause ==
    InTrend =>
        (HasYoy <=> (Len(Series) >= 13 /\ Series[Len(Series) - 12] > 0))

\* C8 amended: the YoY clause is in the narrative exactly when the series is
\* not constant, has at least 13 observations and the observation 13 from the
\* end is > 0; when present it reports |last - prior| / prior as a percentage
\* with one decimal, as growth when last > prior and as decline otherwise
\* (prior 100 and last 150: growth of 50.0%).
C8_YoyClause ==
    InTrend =>
        LET n == Len(Series)
        IN /\ HasYoy <=> (NonConstant /\ n >= 13 /\ Series[n - 12] > 0)
           /\ HasYoy =>
                Contains(trend_result.narrative,
                         <<"terakhir", "**",
                           (IF Series[n] > Series[n - 12] THEN "tumbuh" ELSE "menurun"),
                           FormatPercent1(Abs(Series[n] - Series[n - 12]), Series[n - 12]),
                           "**", ".">>)
           /\ (HasYoy /\ Series[n - 12] = 2 /\ Series[n] = 3) =>
                Contains(trend_result.narrative, <<"**", "tumbuh", "50.0%", "**">>)

\* an analysis of 13 months going from 100 to 150 (2 and 3 units)
C8_Witness ==
    /\ InTrend /\ Len(Series) = 13
    /\ Series[1] = 2 /\ Series[13] = 3
    /\ Contains(trend_result.narrative, <<"**", "tumbuh", "50.0%", "**">>)

(***************************************************************************)
(* C9.  The month the last month is compared with                          *)
(***************************************************************************)
\* C9: whenever the narrative has the YoY clause, the observation the last
\* month is compared with is that of the calendar month 12 months before the
\* last month.
C9_SameMonthLastYear ==
    (InTrend /\ HasYoy) =>
        Observed[YoyRow(Len(Observed))].Bulan = Observed[Len(Observed)].Bulan - 12

(***************************************************************************)
(* C10.  yoy_change of the summary                                         *)
(***************************************************************************)
\* yoy_change is the rational (last - prior) / prior of the monthly sales
YoyChangeIsSalesChange ==
    LET n == Len(SalesSeries)
    IN /\ summary.yoy_change # None
       /\ summary.yoy_change[2] > 0
       /\ summary.yoy_change[1] * SalesSeries[n - 12]
            = (SalesSeries[n] - SalesSeries[n - 12]) * summary.yoy_change[2]

\* C10 as stated: yoy_change is (last - prior) / prior of the monthly sales
\* for every sales series of at least 13 non-null months whose value 13 from
\* the end is > 0, and is None otherwise.
C10_StatedYoyChange ==
    InSummary =>
        IF Len(SalesSeries) >= 13 /\ SalesSeries[Len(SalesSeries) - 12] > 0
        THEN YoyChangeIsSalesChange
        ELSE summary.yoy_change = None

\* C10 amended: yoy_change is (last - prior) / prior of the monthly sales for
\* every sales series that is not constant, has at least 13 non-null months
\* and whose value 13 from the end is > 0, and is None otherwise.
C10_YoyChange ==
    InSummary =>
        IF /\ SalesNonConstant
           /\ Len(SalesSeries) >= 13
           /\ SalesSeries[Len(SalesSeries) - 12] > 0
        THEN YoyChangeIsSalesChange
        ELSE summary.yoy_change = None

\* a summary of 13 months of sales going from 100 to 150: a change of 1/2
C10_Witness ==
    /\ InSummary /\ Len(SalesSeries) = 13
    /\ SalesSeries[1] = 2 /\ SalesSeries[13] = 3
    /\ summary.yoy_change = <<1, 2>>

(***************************************************************************)
(* Structured reading of an analysis (no narrative involved)               *)
(***************************************************************************)
\* the analysis generate_executive_summary made of the metric of label l
AnalysisOf(l) == analyze_trend_v3(monthly_agg, ColumnOf(l), l)

\* the analysis computed a regression
IsFull(a) == DOMAIN a = FullKeys

\* the result is the narrative alone
NarrativeOnly(a) == DOMAIN a = {"narrative"}

\* slope > 0, read from the ends of the trend line (all values of a trend
\* line have the same positive denominator)
SlopePositive(a) == a.trendline[Len(a.trendline)][1] > a.trendline[1][1]

ClassifiedUp(a) == IsFull(a) /\ a.p_value.below_alpha /\ SlopePositive(a)

ClassifiedDown(a) == IsFull(a) /\ a.p_value.below_alpha /\ ~SlopePositive(a)

HasMovingAverage(a) == IsFull(a) /\ a.ma_line # None

\* the last value of the moving average exceeds the one before it
MovingAverageRising(a) ==
    /\ HasMovingAverage(a)
    /\ RatGT(a.ma_line[Len(a.ma_line)], a.ma_line[Len(a.ma_line) - 1])

MovingAverageNotRising(a) ==
    /\ HasMovingAverage(a)
    /\ ~RatGT(a.ma_line[Len(a.ma_line)], a.ma_line[Len(a.ma_line) - 1])

\* the three scores recorded for the metric of label l
ScoreOf(l) == summary.score_details[l]

(***************************************************************************)
(* C11.  Scores read from the narrative against the classification         *)
(***************************************************************************)
\* C11: for each of the three metrics, the long-term score of the summary is
\* +2 exactly when the analysis of the metric found p_value < 0.05 with a
\* positive slope, -2 exactly when it found p_value < 0.05 with a slope that
\* is not positive, and 0 otherwise; the momentum score is +1 exactly when
\* the analysis has a moving average whose last value exceeds the one
\* before, -1 exactly when it has a moving average that does not, and 0
\* otherwise.
C11_ScoresAgreeWithClassification ==
    InSummary =>
        \A l \in LabelSet :
            \E a \in {AnalysisOf(l)} :
                /\ ScoreOf(l).tren_jangka_panjang
                     = (IF ClassifiedUp(a) THEN 2
                        ELSE IF ClassifiedDown(a) THEN -2 ELSE 0)
                /\ ScoreOf(l).momentum_jangka_pendek
                     = (IF MovingAverageRising(a) THEN 1
                        ELSE IF MovingAverageNotRising(a) THEN -1 ELSE 0)

\* a summary of sales classified as increasing significantly, with a moving
\* average that does not rise
C11_Witness ==
    /\ InSummary
    /\ ClassifiedUp(AnalysisOf("Penjualan"))
    /\ MovingAverageNotRising(AnalysisOf("Penjualan"))
    /\ ScoreOf("Penjualan").tren_jangka_panjang = 2
    /\ ScoreOf("Penjualan").momentum_jangka_pendek = -1

(***************************************************************************)
(* C12.  The total of a metric                                             *)
(***************************************************************************)
\* C12: for each of the three metrics the long-term score is one of 2, 0, -2,
\* the momentum score one of 1, 0, -1, and the total is their sum, whatever
\* the combination of the two.
C12_TotalIsSum ==
    InSummary =>
        \A l \in LabelSet :
            /\ ScoreOf(l).tren_jangka_panjang \in {2, 0, -2}
            /\ ScoreOf(l).momentum_jangka_pendek \in {1, 0, -1}
            /\ ScoreOf(l).total
                 = ScoreOf(l).tren_jangka_panjang + ScoreOf(l).momentum_jangka_pendek

\* a summary with a metric that decreases significantly while its momentum
\* is positive: scores of opposite sign, total -1
C12_Witness ==
    /\ InSummary
    /\ \E l \in LabelSet :
          /\ ScoreOf(l).tren_jangka_panjang = -2
          /\ ScoreOf(l).momentum_jangka_pendek = 1
          /\ ScoreOf(l).total = -1

(***************************************************************************)
(* C13.  The contextual narrative                                          *)
(***************************************************************************)
\* C13: the contextual narrative is the message on a higher basket value when
\* sales and AOV increase significantly and the transactions do not; else the
\* message on volume with a falling AOV when sales and transactions increase
\* significantly and AOV decreases significantly; else the message on the
\* fall of AOV when sales decrease significantly, transactions increase
\* significantly and AOV decreases significantly; else it is empty.
C13_ContextNarrative ==
    InSummary =>
        LET sales_up == ClassifiedUp(AnalysisOf("Penjualan"))
            sales_down == ClassifiedDown(AnalysisOf("Penjualan"))
            trx_up == ClassifiedUp(AnalysisOf("Transaksi"))
            aov_up == ClassifiedUp(AnalysisOf("AOV"))
            aov_down == ClassifiedDown(AnalysisOf("AOV"))
        IN summary.health_context_narrative
             = (IF sales_up /\ aov_up /\ ~trx_up
                THEN "Insight Kunci: AOV naik"
                ELSE IF sales_up /\ trx_up /\ aov_down
                THEN "Perhatian: volume naik, AOV turun"
                ELSE IF sales_down /\ trx_up /\ aov_down
                THEN "Waspada: penurunan AOV"
                ELSE "")

\* a summary of sales and AOV increasing significantly with the number of
\* transactions the same in every month
C13_Witness ==
    /\ InSummary
    /\ ClassifiedUp(AnalysisOf("Penjualan"))
    /\ ClassifiedUp(AnalysisOf("AOV"))
    /\ NarrativeOnly(AnalysisOf("Transaksi"))
    /\ summary.health_context_narrative = "Insight Kunci: AOV naik"

(***************************************************************************)
(* C14.  Metrics whose analysis is the narrative alone                     *)
(***************************************************************************)
\* C14: a metric whose analysis is the narrative alone (the insufficient-data
\* or the constant-data message) has long-term score, momentum score and
\* total 0; when that is so for all three metrics the sum of the totals is 0
\* (and the status that of a score of 0, Perlu Perhatian).
C14_NarrativeOnlyScoresZero ==
    InSummary =>
        /\ \A l \in LabelSet :
              NarrativeOnly(AnalysisOf(l)) =>
                  /\ GetNarrative(AnalysisOf(l)) \in {InsufficientNarrative, ConstantNarrative}
                  /\ ScoreOf(l) = [total |-> 0, tren_jangka_panjang |-> 0,
                                   momentum_jangka_pendek |-> 0]
        /\ (\A l \in LabelSet : NarrativeOnly(AnalysisOf(l))) =>
              (TotalScore = 0 /\ summary.health_status = "Perlu Perhatian")

\* a summary of 6 months with the same number of transactions in every month
\* and sales that are scored
C14_Witness ==
    /\ InSummary
    /\ Len(monthly_agg) = 6
    /\ GetNarrative(AnalysisOf("Transaksi")) = ConstantNarrative
    /\ ScoreOf("Transaksi").total = 0
    /\ ScoreOf("Penjualan").total # 0

(***************************************************************************)
(* C16.  Order of the parts of the narrative                               *)
(***************************************************************************)
\* the position of the first occurrence of a phrase in a narrative, 0 when
\* the phrase does not occur
PosOf(narrative, phrase) ==
    IF Contains(narrative, phrase)
    THEN CHOOSE i \in 1..Len(narrative) :
             /\ SubSeq(narrative, i, i + Len(phrase) - 1) = phrase
             /\ \A j \in 1..(i - 1) : SubSeq(narrative, j, j + Len(phrase) - 1) # phrase
    ELSE 0

\* the position of the first full stop after position i
StopAfter(narrative, i) ==
    CHOOSE k \in (i + 1)..Len(narrative) :
        /\ narrative[k] = "."
        /\ \A j \in (i + 1)..(k - 1) : narrative[j] # "."

\* C16: the narrative of an analysis that computed a regression begins with
\* the trend sentence and ends with the extrema clause; a momentum clause,
\* when present, directly follows the trend sentence; a YoY clause, when
\* present, directly follows the momentum clause (the trend sentence when
\* there is no momentum clause); the extrema clause directly follows the last
\* of them; no part occurs twice.
C16_NarrativeOrder ==
    FullResult =>
        \E nar \in {trend_result.narrative} :
            LET t == PosOf(nar, <<"Secara", "keseluruhan", ",", "tren">>)
                m == PosOf(nar, <<"Momentum", "jangka", "pendek">>)
                y == PosOf(nar, PhraseYoy)
                e == PosOf(nar, <<"Performa", "tertinggi", "tercatat", "pada">>)
                tEnd == StopAfter(nar, t)
                mEnd == IF m > 0 THEN StopAfter(nar, m) ELSE tEnd
                yEnd == IF y > 0 THEN StopAfter(nar, y) ELSE mEnd
            IN /\ t = 1
               /\ e > 0
               /\ m > 0 => m = tEnd + 1
               /\ y > 0 => y = mEnd + 1
               /\ e = yEnd + 1
               /\ StopAfter(nar, e) = Len(nar)
               /\ Cardinality({k \in 1..Len(nar) : nar[k] = "."})
                    = 2 + (IF m > 0 THEN 1 ELSE 0) + (IF y > 0 THEN 1 ELSE 0)

\* an analysis whose narrative has all four parts
C16_Witness ==
    /\ FullResult
    /\ HasYoy
    /\ HasPositive \/ HasSlowing
    /\ PosOf(trend_result.narrative, <<"Momentum", "jangka", "pendek">>)
         < PosOf(trend_result.narrative, PhraseYoy)

(***************************************************************************)
(* C17.  Moving average and momentum need 4 observations                   *)
(***************************************************************************)
\* the non-null values of the metric of label l
SeriesOf(l) == Column(DropNa(monthly_agg, ColumnOf(l)), ColumnOf(l))

\* C17: an analysis has a moving average, and a momentum clause, exactly when
\* it computed a regression on at least 4 non-null observations; for a series
\* of exactly 3 observations that are not all equal, the result has a trend
\* line of 3 values and a p-value, no moving average and no momentum clause;
\* and in a summary every metric with fewer than 4 non-null observations has
\* momentum score 0.
C17_MovingAverageNeedsFour ==
    /\ InTrend =>
          /\ HasMovingAverage(trend_result) <=> (Len(Series) >= 4 /\ NonConstant)
          /\ (HasPositive \/ HasSlowing) <=> (Len(Series) >= 4 /\ NonConstant)
          /\ HasMovingAverage(trend_result) =>
                Len(trend_result.ma_line) = Len(Series)
          /\ (Len(Series) = 3 /\ NonConstant) =>
                /\ DOMAIN trend_result = FullKeys
                /\ Len(trend_result.trendline) = 3
                /\ trend_result.p_value.below_alpha \in BOOLEAN
                /\ trend_result.ma_line = None
    /\ InSummary =>
          \A l \in LabelSet :
              Len(SeriesOf(l)) < 4 => ScoreOf(l).momentum_jangka_pendek = 0

\* an analysis of exactly 3 observations, not all equal, taken from a frame
\* of 4 months
C17_Witness ==
    /\ InTrend
    /\ Len(monthly_agg) = 4
    /\ Len(Series) = 3 /\ NonConstant
    /\ DOMAIN trend_result = FullKeys
    /\ trend_result.ma_line = None

(***************************************************************************)
(* C19.  Perfectly linear series and the sign of the slope                 *)
(***************************************************************************)
\* all the monthly increments of the series are the same and positive
LinearIncreasing ==
    /\ Len(Series) >= 3
    /\ Series[2] > Series[1]
    /\ \A i \in 1..(Len(Series) - 1) : Series[i + 1] - Series[i] = Series[2] - Series[1]

\* n^2 * sum (x_i - mean(x)) * (v_i - mean(v)) for x = 0..n-1
CentredCrossSum(v) ==
    LET n == Len(v)
        sumx == SumSeq([i \in 1..n |-> i - 1])
        sumv == SumSeq(v)
    IN SumSeq([i \in 1..n |-> (n * (i - 1) - sumx) * (n * v[i] - sumv)])

Sign(x) == IF x > 0 THEN 1 ELSE IF x < 0 THEN -1 ELSE 0

\* C19: every strictly increasing, perfectly linear series of at least 3
\* observations is analysed with p_value < 0.05 and named as increasing
\* significantly; and whenever a regression is computed, the sign of the
\* slope of the trend line is the sign of sum (i - mean(i)) * (v_i - mean(v)).
C19_LinearSeries ==
    /\ (InTrend /\ LinearIncreasing) =>
          /\ DOMAIN trend_result = FullKeys
          /\ trend_result.p_value.below_alpha
          /\ HasUp /\ ~HasDown /\ ~HasStable
    /\ FullResult =>
          Sign(trend_result.trendline[Len(Series)][1] - trend_result.trendline[1][1])
            = Sign(CentredCrossSum(Series))

\* the analysis of 100, 200, 300, 400, 500, 600 (in units of 50)
C19_Witness ==
    /\ InTrend
    /\ Series = <<2, 4, 6, 8, 10, 12>>
    /\ trend_result.p_value.below_alpha
    /\ HasUp

(***************************************************************************)
(* C20.  Four months with a jump in the last month                         *)
(***************************************************************************)
\* C20 as stated: the analysis of the sales 1000000, 1050000, 1100000,
\* 1650000 has p_value < 0.05 and names the trend as increasing significantly,
\* has the positive-momentum clause and has no YoY clause.
C20_StatedScenario ==
    (InTrend /\ Series = ScenarioSales) =>
        /\ trend_result.p_value.below_alpha
        /\ HasUp
        /\ HasPositive
        /\ ~HasYoy

\* C20 amended: the analysis of the sales 1000000, 1050000, 1100000, 1650000
\* has p_value >= 0.05 and names the trend as stable/fluctuating, has the
\* positive-momentum clause and has no YoY clause.
C20_Scenario ==
    (InTrend /\ Series = ScenarioSales) =>
        /\ DOMAIN trend_result = FullKeys
        /\ ~trend_result.p_value.below_alpha
        /\ HasStable /\ ~HasUp /\ ~HasDown
        /\ HasPositive /\ ~HasSlowing
        /\ ~HasYoy

\* the analysis of the sales of the scenario
C20_Witness ==
    /\ InTrend
    /\ metric_col = "TotalMonthlySales"
    /\ Series = ScenarioSales
    /\ HasStable
    /\ HasPositive

(***************************************************************************)
(* C15.  The executive summary needs 3 months                              *)
(***************************************************************************)
\* the run is past the place of the executive summary
PastSummary == pc \in {"summarised", "trend_tab", "done"}

\* C15: in every run of the dashboard the executive summary is computed and
\* displayed only when the monthly aggregation has at least 3 rows: with
\* fewer rows there is no summary and none is displayed, and with 3 rows or
\* more the summary of the aggregation is computed and displayed.
C15_SummaryNeedsThreeMonths ==
    /\ (summary # None \/ "executive_summary" \in displayed) =>
          (PastSummary /\ Len(monthly_agg) >= 3)
    /\ (PastSummary /\ Len(monthly_agg) >= 3) =>
          /\ summary = generate_executive_summary(monthly_agg)
          /\ "executive_summary" \in displayed

\* a run on 2 months of data that went past the summary without one
C15_Witness ==
    /\ pc = "done"
    /\ Len(monthly_agg) = 2
    /\ summary = None
    /\ "executive_summary" \notin displayed
    /\ "trend_charts" \in displayed

(***************************************************************************)
(* C18.  Denominators                                                      *)
(***************************************************************************)
\* C18: no division of the run (the YoY change of analyze_trend_v3 and of
\* generate_executive_summary, the monthly AOV, the AOV of a sales channel,
\* the month-over-month delta of a KPI) is evaluated with a denominator <= 0.
C18_DenominatorsPositive == \A r \in ratios : r.den > 0

(***************************************************************************)
(* C24.  The score legend                                                  *)
(***************************************************************************)
\* C24: the score of every summary lies in exactly one band of the score
\* legend, and that band is the status of the summary.
C24_LegendAgrees ==
    InSummary => LegendBands(TotalScore) = {summary.health_status}

(***************************************************************************)
(* C27.  The score behind the status                                       *)
(***************************************************************************)
\* C27: the total of each metric lies in -3..3, the sum of the three totals
\* as a display function recomputes it lies in -9..9, and the status of the
\* summary is the status of that sum.
C27_ScoreIsSumOfTotals ==
    InSummary =>
        /\ \A l \in LabelSet : ScoreOf(l).total \in -3..3
        /\ DisplayedTotal(summary) \in -9..9
        /\ DisplayedTotal(summary) = TotalScore
        /\ summary.health_status = HealthStatus(DisplayedTotal(summary))[1]
        /\ summary.health_color = HealthStatus(DisplayedTotal(summary))[2]

\* a summary with the lowest score, every metric at -3
C27_Witness ==
    /\ InSummary
    /\ \A l \in LabelSet : ScoreOf(l).total = -3
    /\ DisplayedTotal(summary) = -9
    /\ summary.health_status = "Waspada"

FlagUp(l) == Contains(GetNarrative(AnalysisOf(l)), PhraseUp)

FlagDown(l) == Contains(GetNarrative(AnalysisOf(l)), PhraseDown)

\* the patterns that match, by their rank in the code
MatchingPatterns ==
    {k \in 1..3 :
        \/ k = 1 /\ FlagUp("Penjualan") /\ FlagUp("AOV") /\ ~FlagUp("Transaksi")
        \/ k = 2 /\ FlagUp("Penjualan") /\ FlagUp("Transaksi") /\ FlagDown("AOV")
        \/ k = 3 /\ FlagDown("Penjualan") /\ FlagUp("Transaksi") /\ FlagDown("AOV")}

PatternMessage(k) ==
    CASE k = 1 -> "Insight Kunci: AOV naik"
      [] k = 2 -> "Perhatian: volume naik, AOV turun"
      [] k = 3 -> "Waspada: penurunan AOV"

\* C29: no metric is flagged both up and down, at most one of the three
\* patterns matches, and the contextual narrative is the message of the
\* pattern that matches (empty when none does), so that the order in which
\* the patterns are tried does not matter.
C29_PatternsExclusive ==
    InSummary =>
        /\ \A l \in LabelSet : ~(FlagUp(l) /\ FlagDown(l))
        /\ Cardinality(MatchingPatterns) <= 1
        /\ \A k \in MatchingPatterns :
              summary.health_context_narrative = PatternMessage(k)
        /\ MatchingPatterns = {} => summary.health_context_narrative = ""

\* a summary in which the third pattern matches
C29_Witness ==
    /\ InSummary
    /\ MatchingPatterns = {3}
    /\ summary.health_context_narrative = "Waspada: penurunan AOV"

(***************************************************************************)
(* Properties of the browser session                                       *)
(***************************************************************************)
MapKeysOf(ss) == {k \in DOMAIN ss : StartsWithMap(k)}

\* the flag as the dashboard branch reads it
DataProcessed(ss) == KeyDataProcessed \in DOMAIN ss /\ ss[KeyDataProcessed]

\* presence and value of a key agree in two session states
SameKey(a, b, key) ==
    /\ (key \in DOMAIN a) = (key \in DOMAIN b)
    /\ key \in DOMAIN a => a[key] = b[key]

\* a step that is a run of the script / an interaction of the user
RunStep == pc = "run"

\* a run that gets to the block of the Apply button with the button pressed
ApplyPressedRun ==
    RunStep /\ apply_button /\ Authenticated(auth_status)
      /\ UploadedFile(session_state) # None

\* user_mapping of that run
MappingOfRun ==
    UserMapping(RenderMapping(InitDataProcessed(session_state),
                              UploadedFile(session_state)))

\* the selections of the select boxes in that run
SelectionsOfRun ==
    RenderMapping(InitDataProcessed(session_state), UploadedFile(session_state))

\* one of the six required columns has no source column
SomeRequiredUnmapped ==
    \E i \in 1..Len(REQUIRED_COLS_MAP) :
        SelectionsOfRun[MapKey("req_", REQUIRED_COLS_MAP[i])] = ""

\* one source column is selected for two or more roles
OneColumnForTwoRoles ==
    \E r1 \in Roles, r2 \in Roles :
        /\ r1 # r2
        /\ SelectionsOfRun[MapKey(r1[1], r1[2])] # ""
        /\ SelectionsOfRun[MapKey(r1[1], r1[2])] = SelectionsOfRun[MapKey(r2[1], r2[2])]

\* the uploader's on_change callback fires in this step
FileChangeStep ==
    pc = "idle" /\ pc' = "run"
      /\ UploadedFile(session_state') # UploadedFile(session_state)

\* C21: reset_processing_state, run from any session state, leaves
\* data_processed = False and no session key whose name starts with 'map_',
\* and leaves every other session key, a stored df_processed included, as it
\* was.  Checked on every session state the browser session reaches.
C21_ResetFrame ==
    \E after \in {reset_processing_state(session_state)} :
        /\ KeyDataProcessed \in DOMAIN after
        /\ after[KeyDataProcessed] = FALSE
        /\ MapKeysOf(after) = {}
        /\ \A key \in (DOMAIN session_state \cup DOMAIN after) \ {KeyDataProcessed} :
              ~StartsWithMap(key) => SameKey(session_state, after, key)

\* the state the callback leaves after a processed file is replaced: the
\* frame is still stored, the flag is down and the selections are gone
C21_Witness ==
    /\ pc = "run"
    /\ KeyDfProcessed \in DOMAIN session_state
    /\ UploadedFile(session_state) # None
    /\ session_state = reset_processing_state(session_state)
    /\ UploadedFile(session_state) # session_state[KeyDfProcessed].file

\* what a run shows when the login has failed or has not been made
LoginMessage(status) == IF status = "False" THEN "error_login" ELSE "warning_login"

\* what only the authenticated section shows
AuthenticatedSections ==
    {"sidebar", "uploader", "info_welcome", "mapping", "filters", "dashboard",
     "warning_empty", "exception", "apply_success", "error_required",
     "error_duplicate", "error_processing"}

\* C25: in every run where auth_status is False or None, nothing of the
\* authenticated section executes (data_processed is not initialised,
\* no uploader, mapping, processing or analysis is reached, the stored frame
\* and flag stay as they are) and only the error (False) or the prompt (None)
\* is shown; and a run renders the dashboard only when auth_status is True.
C25_AuthenticatedOnly ==
    [][RunStep =>
         /\ auth_status \in {"False", "None"} =>
               /\ displayed' = {LoginMessage(auth_status)}
               /\ displayed' \cap AuthenticatedSections = {}
               /\ SameKey(session_state, session_state', KeyDataProcessed)
               /\ SameKey(session_state, session_state', KeyDfProcessed)
               /\ MapKeysOf(session_state') \subseteq MapKeysOf(session_state)
               /\ pc' = "idle"
         /\ "dashboard" \in displayed' => auth_status = "True"]_vars

\* after a logout and a wrong password, with a processed frame in the session
C25_Witness ==
    /\ pc = "idle"
    /\ auth_status = "False"
    /\ displayed = {"error_login"}
    /\ DataProcessed(session_state)
    /\ KeyDfProcessed \in DOMAIN session_state

\* C23: a press of the Apply button with one of the six required columns
\* unmapped, or with one source column selected for two or more roles, shows
\* an error and stops the run, and an exception raised while the processed
\* frame is built does the same; in all three cases df_processed and
\* data_processed are what they were.
C23_ApplyRejected ==
    [][ApplyPressedRun =>
         /\ SomeRequiredUnmapped => "error_required" \in displayed'
         /\ ~SomeRequiredUnmapped /\ OneColumnForTwoRoles =>
               "error_duplicate" \in displayed'
         /\ displayed' \cap {"error_required", "error_duplicate", "error_processing"} # {} =>
               /\ pc' = "idle"
               /\ displayed' \cap {"filters", "dashboard", "apply_success"} = {}
               /\ SameKey(session_state, session_state', KeyDataProcessed)
               /\ SameKey(session_state, session_state', KeyDfProcessed)]_vars

\* a rejected press with an unmapped Qty, a frame of an earlier Apply stored
C23_Witness ==
    /\ pc = "idle"
    /\ "error_required" \in displayed
    /\ session_state[MapKey("req_", "Qty")] = ""
    /\ DataProcessed(session_state)
    /\ KeyDfProcessed \in DOMAIN session_state

\* the other two rejections
C23_WitnessDuplicate ==
    pc = "idle" /\ "error_duplicate" \in displayed
      /\ session_state[MapKey("req_", "Menu")] = "Branch"

C23_WitnessException ==
    pc = "idle" /\ "error_processing" \in displayed
      /\ KeyDfProcessed \notin DOMAIN session_state

\* a run that stores a frame
ApplySucceeds == ApplyPressedRun /\ "apply_success" \in displayed'

\* C26: in every session state, data_processed = True implies that
\* df_processed is present, and df_processed is the frame of the most recent
\* successful Apply (only a successful Apply changes it, to the frame built
\* from the uploaded file and the mapping of that run); the read of
\* st.session_state.df_processed in the dashboard branch never fails.
C26_ProcessedFrameStored ==
    [][/\ DataProcessed(session_state') => KeyDfProcessed \in DOMAIN session_state'
       /\ "exception" \notin displayed'
       /\ ~SameKey(session_state, session_state', KeyDfProcessed) => ApplySucceeds
       /\ ApplySucceeds =>
             /\ KeyDfProcessed \in DOMAIN session_state'
             /\ session_state'[KeyDfProcessed] =
                  BuildFrame(UploadedFile(session_state), MappingOfRun)
             /\ DataProcessed(session_state')]_vars

\* the dashboard branch has read the frame of a second successful Apply
C26_Witness ==
    /\ pc = "idle"
    /\ "dashboard" \in displayed
    /\ DataProcessed(session_state)
    /\ session_state[KeyDfProcessed].file = ExportFile
    /\ session_state[KeyDfProcessed].mapping["Qty"] = "Jumlah"

\* the dashboard branch of the script was entered
DashboardBranch == pc = "idle" /\ "filters" \in displayed

\* C22: once the uploaded file has changed, no run enters the dashboard
\* branch (filters, summary, tabs) on the frame processed before the change:
\* the change takes data_processed down, only a successful Apply takes it up
\* again, and a run that enters the dashboard branch does so on a frame built
\* from the file that is uploaded now.
C22_NoStaleDashboard ==
    [][/\ FileChangeStep => ~DataProcessed(session_state')
       /\ ~DataProcessed(session_state) /\ DataProcessed(session_state') => ApplySucceeds
       /\ RunStep /\ "filters" \in displayed' =>
             /\ DataProcessed(session_state)
             /\ KeyDfProcessed \in DOMAIN session_state
             /\ session_state[KeyDfProcessed].file = UploadedFile(session_state)]_vars

\* after a change of the processed file, the run shows the mapping only
C22_Witness ==
    /\ pc = "idle"
    /\ displayed = MappingSections
    /\ ~DataProcessed(session_state)
    /\ KeyDfProcessed \in DOMAIN session_state
    /\ session_state[KeyDfProcessed].file # UploadedFile(session_state)

\* the Apply button was pressed on a mapping that passes both checks, and
\* the frame was built without an exception
ValidApplyRun ==
    /\ ApplyPressedRun
    /\ ~SomeRequiredUnmapped
    /\ ~OneColumnForTwoRoles
    /\ "error_processing" \notin displayed'

\* the state st.rerun() leaves: the frame is stored and the next run is due
RerunDue == pc = "run" /\ "apply_success" \in displayed

\* C30: in an authenticated session with a file uploaded, a press of Apply
\* on a mapping of all required columns to distinct source columns, with no
\* exception in the processing, stores df_processed, sets data_processed and
\* triggers a rerun; the run that follows enters the dashboard branch (and
\* renders the dashboard when two dates are picked and the filtered data is
\* not empty); and data_processed stays True until the uploaded file changes.
C30_ApplyLeadsToDashboard ==
    /\ [][ValidApplyRun =>
             /\ KeyDfProcessed \in DOMAIN session_state'
             /\ session_state'[KeyDfProcessed].file = UploadedFile(session_state)
             /\ DataProcessed(session_state')
             /\ pc' = "run"]_vars
    /\ [][RerunDue /\ RunStep =>
             /\ "filters" \in displayed'
             /\ displayed' \ MappingSections \in
                   {{"filters"}, {"filters", "warning_empty"}, {"filters", "dashboard"}}
             /\ DataProcessed(session_state')]_vars
    /\ [][DataProcessed(session_state) /\ ~DataProcessed(session_state') =>
             FileChangeStep]_vars
    /\ (RerunDue ~> (DashboardBranch /\ DataProcessed(session_state)))

\* the run after the rerun has rendered the dashboard of the report
C30_Witness ==
    /\ pc = "idle"
    /\ "dashboard" \in displayed
    /\ auth_status = "True"
    /\ DataProcessed(session_state)
    /\ session_state[KeyDfProcessed].file = ReportFile
    /\ session_state[KeyDfProcessed].file = UploadedFile(session_state)


====
